---- MODULE Spec2Model ----
(***************************************************************************)
(* The monitor dashboard of tw-live-frontend: the Index page component     *)
(* (its useState cells, its effects and its handlers), the gateway hook    *)
(* useYTLiveApi, the session hook useAuth and the pager of MonitorList.    *)
(*                                                                         *)
(* Text is modelled as a tuple of one-character strings, so that split,    *)
(* join, includes and toUpperCase are computed and not assumed.  A field   *)
(* that is absent from a JSON object is the value Undefined.               *)
(***************************************************************************)
EXTENDS Integers, Sequences, FiniteSets, TLC

(***************************************************************************)
(* Bounds of the model.                                                    *)
(***************************************************************************)
MaxVideos == 1      \* longest list a GET /videos response carries
MaxStatuses == 1    \* longest list a GET /status response carries
MaxInFlight == 2    \* loadData invocations awaiting their Promise.all
MaxOps == 1         \* addVideo / deleteVideo calls awaiting their response
MaxTime == 30       \* horizon of the clock, in seconds
MaxPage == 3        \* highest page the model lets the pager show
MaxMergeVideos == 2    \* longest videos list the merge is given
MaxMergeStatuses == 2  \* longest statuses list the merge is given

(***************************************************************************)
(* Text.                                                                   *)
(***************************************************************************)
Undefined == <<"undefined">>

Truthy(s) == s # Undefined /\ s # <<>>

RECURSIVE Join(_, _)
Join(parts, sep) ==
  IF Len(parts) = 0 THEN <<>>
  ELSE IF Len(parts) = 1 THEN Head(parts)
  ELSE Head(parts) \o sep \o Join(Tail(parts), sep)

\* String.prototype.split with a one-character separator
RECURSIVE SplitFrom(_, _, _)
SplitFrom(s, sep, cur) ==
  IF Len(s) = 0 THEN <<cur>>
  ELSE IF Head(s) = sep THEN <<cur>> \o SplitFrom(Tail(s), sep, <<>>)
  ELSE SplitFrom(Tail(s), sep, Append(cur, Head(s)))

Split(s, sep) == SplitFrom(s, sep, <<>>)

\* Array.prototype.slice(1, -1)
SliceOneToLast(a) ==
  IF Len(a) <= 2 THEN <<>> ELSE SubSeq(a, 2, Len(a) - 1)

\* String.prototype.includes
Includes(s, sub) ==
  \E i \in 1..(Len(s) - Len(sub) + 1) : SubSeq(s, i, i + Len(sub) - 1) = sub

UpperChar(c) ==
  CASE c = "a" -> "A" [] c = "e" -> "E" [] c = "i" -> "I" [] c = "l" -> "L"
    [] c = "n" -> "N" [] c = "o" -> "O" [] c = "r" -> "R" [] c = "v" -> "V"
    [] OTHER -> c

\* String.prototype.toUpperCase
ToUpperCase(s) == [i \in 1..Len(s) |-> UpperChar(s[i])]

DigitChar(d) == <<"0", "1", "2", "3", "4", "5", "6", "7", "8", "9">>[d + 1]

\* the decimal rendering of a number in a template literal
RECURSIVE NumToStr(_)
NumToStr(n) ==
  IF n < 10 THEN <<DigitChar(n)>>
  ELSE Append(NumToStr(n \div 10), DigitChar(n % 10))

DigitVal(c) ==
  CASE c = "0" -> 0 [] c = "1" -> 1 [] c = "2" -> 2 [] c = "3" -> 3
    [] c = "4" -> 4 [] c = "5" -> 5 [] c = "6" -> 6 [] c = "7" -> 7
    [] c = "8" -> 8 [] c = "9" -> 9

\* parseInt of a string of decimal digits
RECURSIVE ParseInt(_)
ParseInt(s) ==
  IF Len(s) = 1 THEN DigitVal(s[1])
  ELSE 10 * ParseInt(SubSeq(s, 1, Len(s) - 1)) + DigitVal(s[Len(s)])

(***************************************************************************)
(* Literals of the program.                                                *)
(***************************************************************************)
\* the "not yet checked" literal of details and checkTime
NotYetChecked == <<"not yet checked">>

ErrorWord == <<"e", "r", "r", "o", "r">>

RowPrefix == <<"v", "i", "d", "e", "o">>

Dash == "-"

\* the values of the auto refresh select
IntervalOptions == {<<"1", "0">>, <<"3", "0">>, <<"6", "0">>, <<"0">>}

InitialInterval == <<"3", "0">>

\* the values of the page size select
PageSizeOptions == {5, 10, 20, 50}

InitialPageSize == 5

\* the values of the status filter select
FilterOptions == {"all", "live", "offline", "error"}

\* what checkHealth returns when its fetch fails
HealthFallback == [ok |-> FALSE, watching |-> 0, cached |-> 0]

\* Date rendering: toLocaleString("zh-TW") of a checked_at text
Localize(s) == <<"zh-TW">> \o s

\* the rendering of the clock that loadData stores in lastUpdate
Stamp(t) == <<t>>

(***************************************************************************)
(* loadData's merge of the videos with their status (the reconciliation).  *)
(***************************************************************************)
\* what status?.field yields for every field once statusMap.get found nothing
NoStatus ==
  [video_id |-> Undefined, is_live_now |-> FALSE, live_status |-> Undefined,
   checked_at |-> Undefined, note |-> Undefined]

\* a lookup that yields the entry set first for the id
StatusMapGetFirst(statuses, id) ==
  LET hits == {i \in 1..Len(statuses) : statuses[i].video_id = id}
  IN IF hits = {} THEN NoStatus
     ELSE statuses[CHOOSE i \in hits : \A j \in hits : i <= j]

\* a lookup that yields a record of another video when it finds none
StatusMapGetAny(statuses, id) ==
  LET hits == {i \in 1..Len(statuses) : statuses[i].video_id = id}
  IN IF hits # {} THEN statuses[CHOOSE i \in hits : \A j \in hits : j <= i]
     ELSE IF statuses = <<>> THEN NoStatus
     ELSE statuses[1]

\* statuses.forEach(s => statusMap.set(s.video_id, s)); statusMap.get(id):
\* the entry set last for the id
StatusMapGet(statuses, id) ==
  LET hits == {i \in 1..Len(statuses) : statuses[i].video_id = id}
  IN IF hits = {} THEN NoStatus
     ELSE statuses[CHOOSE i \in hits : \A j \in hits : j <= i]

\* a classification that inspects the note before is_live_now
MonitorStatusErrorFirst(status) ==
  IF Truthy(status.note) /\ Includes(status.note, ErrorWord) THEN "error"
  ELSE IF status.is_live_now THEN "live"
  ELSE "offline"

\* a classification for which any note is an error
MonitorStatusAnyNote(status) ==
  IF status.is_live_now THEN "live"
  ELSE IF Truthy(status.note) THEN "error"
  ELSE "offline"

MonitorStatus(status) ==
  IF status.is_live_now THEN "live"
  ELSE IF Truthy(status.note) /\ Includes(status.note, ErrorWord) THEN "error"
  ELSE "offline"

LiveStatus(status) ==
  IF status.live_status = Undefined THEN Undefined
  ELSE ToUpperCase(status.live_status)

\* details that prefer the note to the live status
DetailsNoteFirst(status) ==
  IF Truthy(status.note) THEN status.note
  ELSE IF Truthy(LiveStatus(status)) THEN LiveStatus(status)
  ELSE NotYetChecked

Details(status) ==
  IF Truthy(LiveStatus(status)) THEN LiveStatus(status)
  ELSE IF Truthy(status.note) THEN status.note
  ELSE NotYetChecked

CheckTime(status) ==
  IF Truthy(status.checked_at) THEN Localize(status.checked_at)
  ELSE NotYetChecked

\* a row id made of the video id alone
RowIdWithoutIndex(videoId, index) == RowPrefix \o <<Dash>> \o videoId

\* `video-${v.video_id}-${index}`
RowId(videoId, index) ==
  RowPrefix \o <<Dash>> \o videoId \o <<Dash>> \o NumToStr(index)

MonitorItemOf(v, index, statuses) ==
  LET status == StatusMapGet(statuses, v.video_id)
  IN [id |-> RowId(v.video_id, index),
      videoId |-> v.video_id,
      status |-> MonitorStatus(status),
      details |-> Details(status),
      checkTime |-> CheckTime(status)]

\* a merge that drops the videos no status names
MergeMonitorsDropsUnmatched(videos, statuses) ==
  LET all == [i \in 1..Len(videos) |-> MonitorItemOf(videos[i], i - 1, statuses)]
      Has(m) == \E j \in 1..Len(statuses) : statuses[j].video_id = m.videoId
  IN SelectSeq(all, Has)

\* videos.map((v, index) => ...), index counted from 0
MergeMonitors(videos, statuses) ==
  [i \in 1..Len(videos) |-> MonitorItemOf(videos[i], i - 1, statuses)]

\* an extraction that takes the second segment of the split
ExtractVideoIdNaive(id) == Split(id, Dash)[2]

\* handleDeleteMonitor: id.split("-"), parts.slice(1, -1).join("-")
ExtractVideoId(id) == Join(SliceOneToLast(Split(id, Dash)), <<Dash>>)

(***************************************************************************)
(* What the gateway can answer.                                            *)
(***************************************************************************)
SeqsUpTo(S, n) == UNION {[1..k -> S] : k \in 0..n}

IdA == <<"a">>

IdB == <<"b", "-", "c">>

StatusLive ==
  [video_id |-> IdB, is_live_now |-> TRUE, live_status |-> <<"l", "i", "v", "e">>,
   checked_at |-> <<"t">>, note |-> Undefined]

HealthOk == [ok |-> TRUE, watching |-> 2, cached |-> 1]

\* a backend whose registrations and status records change between answers
Answers ==
  [videos |-> SeqsUpTo({[video_id |-> IdB]}, MaxVideos),
   statuses |-> SeqsUpTo({StatusLive}, MaxStatuses),
   health |-> {HealthOk}]

\* six registrations, every other one live
SixVideos == [i \in 1..6 |-> [video_id |-> IF i % 2 = 0 THEN IdB ELSE IdA]]

\* a backend with no registration or with more than a page of them
PagingAnswers ==
  [videos |-> {<<>>, SixVideos},
   statuses |-> {<<StatusLive>>},
   health |-> {HealthOk}]

\* a backend that answers the same every time
SteadyAnswers ==
  [videos |-> {<<[video_id |-> IdB]>>},
   statuses |-> {<<StatusLive>>},
   health |-> {HealthOk}]

(***************************************************************************)
(* State.                                                                  *)
(***************************************************************************)
VARIABLES
  mounted,              \* the Index component is mounted
  stored,               \* localStorage holds a session under SESSION_KEY
  authLoading,          \* useAuth: loading
  session,              \* useAuth: a session is set (isAuthenticated)
  monitors,             \* Index: monitors
  isConnected,          \* Index: isConnected
  healthStats,          \* Index: healthStats
  lastUpdate,           \* Index: lastUpdate
  currentPage,          \* Index: currentPage
  pageSize,             \* Index: pageSize
  statusFilter,         \* Index: statusFilter
  autoRefreshInterval,  \* Index: autoRefreshInterval
  timers,               \* the interval timers that are armed
  effectTimer,          \* the timer the auto refresh effect's cleanup holds
  now,                  \* the clock, in seconds
  inflight,             \* per slot, a loadData invocation not yet settled
  pendingOps,           \* the add / delete handlers awaiting the gateway
  ev,                   \* the last step taken and the notification it raised
  pre                   \* per slot, the snapshot when its invocation started

snapshot == <<monitors, isConnected, healthStats, lastUpdate>>

paging == <<currentPage, pageSize, statusFilter>>

auth == <<mounted, stored, authLoading, session>>

clock == <<timers, effectTimer, now>>

vars ==
  <<mounted, stored, authLoading, session, monitors, isConnected, healthStats,
    lastUpdate, currentPage, pageSize, statusFilter, autoRefreshInterval,
    timers, effectTimer, now, inflight, pendingOps, ev, pre>>

NoTimer == <<>>

NoPre == [monitors |-> <<>>, healthStats |-> [watching |-> 0, cached |-> 0],
          lastUpdate |-> <<>>]

Slots == 1..MaxInFlight

\* a slot that holds no invocation
Idle ==
  [videos |-> "none", statuses |-> "none", health |-> "none",
   phase |-> "idle", toasts |-> 0]

InFlight == {k \in Slots : inflight[k] # Idle}

\* the part of the snapshot a failed cycle is to retain
Retained == [monitors |-> monitors, healthStats |-> healthStats,
             lastUpdate |-> lastUpdate]

\* the state of the page when it mounts
Mounting ==
  /\ mounted = TRUE
  /\ stored \in {"none", "session", "garbage"}
  /\ authLoading = TRUE
  /\ session = FALSE
  /\ monitors = <<>>
  /\ isConnected = FALSE
  /\ healthStats = [watching |-> 0, cached |-> 0]
  /\ lastUpdate = <<>>
  /\ currentPage = 1
  /\ pageSize = InitialPageSize
  /\ statusFilter = "all"
  /\ autoRefreshInterval = InitialInterval
  /\ timers = {}
  /\ effectTimer = NoTimer
  /\ now = 0
  /\ inflight = [k \in Slots |-> Idle]
  /\ pendingOps = <<>>
  /\ ev = [kind |-> "mount", toast |-> "none"]

Init ==
  /\ Mounting
  /\ pre = [k \in Slots |-> NoPre]

\* the page is rendered: past both early returns of Index
Rendered == mounted /\ ~authLoading /\ session

(***************************************************************************)
(* loadData up to its await: the three gateway calls are issued.           *)
(***************************************************************************)
NewCycle ==
  [videos |-> "pending", statuses |-> "pending", health |-> "pending",
   phase |-> "awaiting", toasts |-> 0]

CanLoad == InFlight # Slots

FreeSlot == CHOOSE k \in Slots \ InFlight : \A j \in Slots \ InFlight : k <= j

LoadDataCalled == inflight' = [inflight EXCEPT ![FreeSlot] = NewCycle]

(***************************************************************************)
(* The auto refresh effect and its cleanup.                                *)
(***************************************************************************)
\* an effect that arms a timer whatever the interval
EffectArmsAnyInterval(interval, isAuthenticated) == isAuthenticated

\* an effect that never arms a timer
EffectArmsNever(interval, isAuthenticated) == FALSE

\* if (interval <= 0 || !isAuthenticated) return;
EffectArms(interval, isAuthenticated) ==
  ~(ParseInt(interval) <= 0 \/ ~isAuthenticated)

\* setInterval(loadData, interval * 1000) called at time t
NewTimer(interval, t) ==
  [period |-> ParseInt(interval), armedAt |-> t, due |-> t + ParseInt(interval)]

Handle(t) == <<t.period, t.armedAt>>

\* a cleanup that does not clear its timer
ClearIntervalForgotten(ts, handle) == ts

\* clearInterval(timer)
ClearInterval(ts, handle) == {t \in ts : Handle(t) # handle}

\* React runs the cleanup of the previous run, then the body with the new deps
AutoRefreshEffect(interval, isAuthenticated) ==
  IF EffectArms(interval, isAuthenticated)
  THEN /\ timers' = ClearInterval(timers, effectTimer) \cup {NewTimer(interval, now)}
       /\ effectTimer' = Handle(NewTimer(interval, now))
  ELSE /\ timers' = ClearInterval(timers, effectTimer)
       /\ effectTimer' = NoTimer

\* an unmount after which the timer stays armed
UnmountKeepsTimer ==
  /\ mounted' = FALSE
  /\ UNCHANGED <<timers, effectTimer>>

\* the component leaves the tree: every effect's cleanup runs
Unmount ==
  /\ mounted' = FALSE
  /\ timers' = ClearInterval(timers, effectTimer)
  /\ effectTimer' = NoTimer

(***************************************************************************)
(* useAuth: the session is restored from localStorage, then the effects of *)
(* Index run: initial load, auto refresh, redirect to the login page.      *)
(***************************************************************************)
AuthRestore ==
  /\ mounted /\ authLoading
  /\ authLoading' = FALSE
  /\ IF stored = "session"
     THEN /\ session' = TRUE
          /\ stored' = stored
          /\ mounted' = mounted
          /\ LoadDataCalled
          /\ AutoRefreshEffect(autoRefreshInterval, TRUE)
     ELSE /\ session' = FALSE
          /\ stored' = "none"
          /\ Unmount
          /\ inflight' = inflight
  /\ ev' = [kind |-> "authRestore", toast |-> "none"]
  /\ UNCHANGED <<snapshot, paging, autoRefreshInterval, now, pendingOps>>

(***************************************************************************)
(* The clock and the interval timer.                                       *)
(***************************************************************************)
Periods == {ParseInt(o) : o \in IntervalOptions} \ {0}

Divides(g) == \A p \in Periods : p % g = 0

\* the instants the model tells apart: the common divisor of the periods
MaxPeriod == CHOOSE p \in Periods : \A q \in Periods : q <= p

ClockStep ==
  CHOOSE g \in 1..MaxPeriod :
    Divides(g) /\ \A h \in 1..MaxPeriod : Divides(h) => h <= g

AdvanceTime ==
  /\ now + ClockStep <= MaxTime
  /\ \A t \in timers : t.due > now
  /\ now' = now + ClockStep
  /\ ev' = [kind |-> "time", toast |-> "none"]
  /\ UNCHANGED <<auth, snapshot, paging, autoRefreshInterval, timers,
                 effectTimer, inflight, pendingOps>>

\* the timer's callback is loadData
TimerTick(t) ==
  /\ t \in timers
  /\ t.due = now
  /\ CanLoad
  /\ LoadDataCalled
  /\ timers' = (timers \ {t}) \cup {[t EXCEPT !.due = now + t.period]}
  /\ ev' = [kind |-> "tick", toast |-> "none", period |-> t.period,
            armedAt |-> t.armedAt, pending |-> Cardinality(InFlight)]
  /\ UNCHANGED <<auth, snapshot, paging, autoRefreshInterval, effectTimer,
                 now, pendingOps>>

(***************************************************************************)
(* Handlers of the form and of the header.                                 *)
(***************************************************************************)
HandleManualRefresh ==
  /\ Rendered
  /\ CanLoad
  /\ LoadDataCalled
  /\ ev' = [kind |-> "manualRefresh", toast |-> "info",
            pending |-> Cardinality(InFlight)]
  /\ UNCHANGED <<auth, snapshot, paging, autoRefreshInterval, clock, pendingOps>>

\* onAutoRefreshIntervalChange={setAutoRefreshInterval}; the effect runs again
\* when the value differs from the one of the last render
SetAutoRefreshInterval(v) ==
  /\ Rendered
  /\ autoRefreshInterval' = v
  /\ IF v # autoRefreshInterval
     THEN AutoRefreshEffect(v, session)
     ELSE UNCHANGED <<timers, effectTimer>>
  /\ ev' = [kind |-> "interval", toast |-> "none",
            changed |-> v # autoRefreshInterval]
  /\ UNCHANGED <<auth, snapshot, paging, now, inflight, pendingOps>>

\* signOut(), toast, navigate("/login")
HandleLogout ==
  /\ Rendered
  /\ stored' = "none"
  /\ session' = FALSE
  /\ Unmount
  /\ ev' = [kind |-> "logout", toast |-> "info"]
  /\ UNCHANGED <<authLoading, snapshot, paging, autoRefreshInterval, now,
                 inflight, pendingOps>>

(***************************************************************************)
(* The gateway answers, and loadData goes on past its await.               *)
(***************************************************************************)
\* fetchVideos and fetchStatus return the body or rethrow what they caught
FetchOutcomes == {"ok", "rejected"}

\* a checkHealth that rethrows what it caught
CheckHealthRethrows == {"ok", "rejected"}

\* checkHealth returns the body, or the fallback from its catch
CheckHealthOutcomes == {"ok", "fallback"}

Outcomes(call) ==
  IF call = "health" THEN CheckHealthOutcomes ELSE FetchOutcomes

HealthResults(outcome, answers) ==
  IF outcome = "fallback" THEN {HealthFallback} ELSE answers.health

Calls == {"videos", "statuses", "health"}

Settled(c) == \A call \in Calls : c[call] # "pending"

AllResolved(c) == \A call \in Calls : c[call] \in {"ok", "fallback"}

\* a catch that runs for every call that rejects
CatchRunsPerRejection(c, outcome) == outcome = "rejected"

\* Promise.all rejects with the first rejection; a settled promise stays so
CatchRuns(c, outcome) == c.phase = "awaiting" /\ outcome = "rejected"

\* a continuation that runs as soon as checkHealth has resolved
ThenRunsOnHealth(c, after) ==
  c.phase = "awaiting" /\ after.health \in {"ok", "fallback"}

\* Promise.all resolves once the three calls have resolved
ThenRuns(c, after) == c.phase = "awaiting" /\ AllResolved(after)

Remove(q, i) == SubSeq(q, 1, i - 1) \o SubSeq(q, i + 1, Len(q))

\* a cycle is forgotten once none of its calls is pending
Keep(i, c) ==
  [inflight EXCEPT ![i] = IF Settled(c) THEN Idle ELSE c]

\* a try block that patches the rows it finds instead of replacing them
LoadDataApplyPatches(videos, statuses, health) ==
  /\ isConnected' = health.ok
  /\ healthStats' = [watching |-> health.watching, cached |-> health.cached]
  /\ monitors' = IF videos = <<>> THEN monitors
                 ELSE MergeMonitors(videos, statuses)
  /\ lastUpdate' = Stamp(now)

\* a try block that keeps the rows it finds beside the new ones
LoadDataApplyKeepsRows(videos, statuses, health) ==
  /\ isConnected' = health.ok
  /\ healthStats' = [watching |-> health.watching, cached |-> health.cached]
  /\ monitors' = monitors \o MergeMonitors(videos, statuses)
  /\ lastUpdate' = Stamp(now)

\* the try block after the await
LoadDataApply(videos, statuses, health) ==
  /\ isConnected' = health.ok
  /\ healthStats' = [watching |-> health.watching, cached |-> health.cached]
  /\ monitors' = MergeMonitors(videos, statuses)
  /\ lastUpdate' = Stamp(now)

\* the catch block, but for its toast
LoadDataCatch ==
  /\ isConnected' = FALSE
  /\ UNCHANGED <<monitors, healthStats, lastUpdate>>

\* One gateway call of cycle i settles.  The values of the responses are
\* drawn from what the backend answers where loadData reads them, after the
\* await.
Settle(i, call, outcome, answers) ==
  /\ i \in InFlight
  /\ inflight[i][call] = "pending"
  /\ outcome \in Outcomes(call)
  /\ LET c == inflight[i]
         after == [c EXCEPT ![call] = outcome]
         failed == [after EXCEPT !.phase = "failed", !.toasts = @ + 1]
     IN IF CatchRuns(c, outcome)
        THEN /\ LoadDataCatch
             /\ inflight' = Keep(i, failed)
             /\ ev' = [kind |-> "catch", toast |-> "destructive",
                       slot |-> i, toasts |-> failed.toasts]
        ELSE IF ThenRuns(c, after)
        THEN /\ \E videos \in answers.videos, statuses \in answers.statuses,
                   health \in HealthResults(after.health, answers) :
                  /\ LoadDataApply(videos, statuses, health)
                  /\ ev' = [kind |-> "applied", toast |-> "none", slot |-> i,
                            rowsBefore |-> Len(monitors),
                            toasts |-> after.toasts, videos |-> videos,
                            statuses |-> statuses, health |-> health,
                            degraded |-> after.health = "fallback"]
             /\ inflight' = [inflight EXCEPT ![i] = Idle]
        ELSE /\ UNCHANGED snapshot
             /\ inflight' = Keep(i, after)
             /\ ev' = [kind |-> "settle", toast |-> "none", slot |-> i,
                       toasts |-> after.toasts, phase |-> after.phase,
                       outcome |-> outcome]
  /\ UNCHANGED <<auth, paging, autoRefreshInterval, clock, pendingOps>>

(***************************************************************************)
(* Filter and pages.                                                       *)
(***************************************************************************)
Matches(m) == statusFilter = "all" \/ m.status = statusFilter

FilteredMonitors == SelectSeq(monitors, Matches)

\* Array.prototype.slice(from, to) for 0 <= from <= to
Slice(a, from, to) ==
  SubSeq(a, from + 1, IF to < Len(a) THEN to ELSE Len(a))

\* a page that starts one row late
PaginatedMonitorsShifted ==
  Slice(FilteredMonitors, (currentPage - 1) * pageSize + 1,
        currentPage * pageSize + 1)

PaginatedMonitors ==
  Slice(FilteredMonitors, (currentPage - 1) * pageSize, currentPage * pageSize)

\* Math.ceil(totalItems / pageSize)
TotalPages == (Len(FilteredMonitors) + pageSize - 1) \div pageSize

PrevDisabled == currentPage = 1

NextDisabled == currentPage = TotalPages

HandlePageChange(page) == currentPage' = page

PrevPage ==
  /\ Rendered
  /\ ~PrevDisabled
  /\ HandlePageChange(currentPage - 1)
  /\ ev' = [kind |-> "prevPage", toast |-> "none"]
  /\ UNCHANGED <<auth, snapshot, pageSize, statusFilter, autoRefreshInterval,
                 clock, inflight, pendingOps>>

NextPage ==
  /\ Rendered
  /\ ~NextDisabled
  /\ currentPage < MaxPage
  /\ HandlePageChange(currentPage + 1)
  /\ ev' = [kind |-> "nextPage", toast |-> "none"]
  /\ UNCHANGED <<auth, snapshot, pageSize, statusFilter, autoRefreshInterval,
                 clock, inflight, pendingOps>>

\* a page size change that keeps the page
HandlePageSizeChangeKeepsPage(size) ==
  /\ Rendered
  /\ pageSize' = size
  /\ ev' = [kind |-> "pageSize", toast |-> "none", size |-> size,
            pageBefore |-> currentPage]
  /\ UNCHANGED <<auth, snapshot, currentPage, statusFilter,
                 autoRefreshInterval, clock, inflight, pendingOps>>

HandlePageSizeChange(size) ==
  /\ Rendered
  /\ pageSize' = size
  /\ currentPage' = 1
  /\ ev' = [kind |-> "pageSize", toast |-> "none", size |-> size,
            pageBefore |-> currentPage]
  /\ UNCHANGED <<auth, snapshot, statusFilter, autoRefreshInterval, clock,
                 inflight, pendingOps>>

\* onStatusFilterChange={setStatusFilter}
SetStatusFilter(f) ==
  /\ Rendered
  /\ statusFilter' = f
  /\ ev' = [kind |-> "filter", toast |-> "none", filter |-> f,
            changed |-> f # statusFilter, pageBefore |-> currentPage]
  /\ UNCHANGED <<auth, snapshot, currentPage, pageSize, autoRefreshInterval,
                 clock, inflight, pendingOps>>

(***************************************************************************)
(* Add and delete.                                                         *)
(***************************************************************************)
\* handleAddMonitor up to its await of addVideo
HandleAddMonitor(videoId) ==
  /\ Rendered
  /\ Len(pendingOps) < MaxOps
  /\ pendingOps' = Append(pendingOps, [op |-> "add", videoId |-> videoId])
  /\ ev' = [kind |-> "add", toast |-> "none"]
  /\ UNCHANGED <<auth, snapshot, paging, autoRefreshInterval, clock, inflight>>

\* handleDeleteMonitor up to its await of deleteVideo, for row k of the page
HandleDeleteMonitor(k) ==
  /\ Rendered
  /\ Len(pendingOps) < MaxOps
  /\ k \in 1..Len(PaginatedMonitors)
  /\ LET row == PaginatedMonitors[k]
     IN /\ pendingOps' = Append(pendingOps,
                                [op |-> "delete", videoId |-> ExtractVideoId(row.id)])
        /\ ev' = [kind |-> "delete", toast |-> "none", clicked |-> row.videoId,
                  sent |-> ExtractVideoId(row.id)]
  /\ UNCHANGED <<auth, snapshot, paging, autoRefreshInterval, clock, inflight>>

\* what addVideo / deleteVideo rethrow: the Error made from the response
\* (errorData.detail || `HTTP ${response.status}`)
ThrownErrors ==
  {[isError |-> TRUE, message |-> "detail"],
   [isError |-> TRUE, message |-> "HTTP 500"]}

\* the default description of the handler's failure toast
DefaultDescription(op) == IF op = "add" THEN "cannot add" ELSE "cannot delete"

\* a failure toast that never shows the message
ToastDescriptionDefault(err, op) == DefaultDescription(op)

\* err instanceof Error ? err.message : default
ToastDescription(err, op) ==
  IF err.isError THEN err.message ELSE DefaultDescription(op)

\* a success continuation that also removes a row by itself
OpSettlesOptimistic(j, outcome) ==
  /\ j \in 1..Len(pendingOps)
  /\ outcome \in FetchOutcomes
  /\ pendingOps' = Remove(pendingOps, j)
  /\ IF outcome = "ok"
     THEN /\ CanLoad
          /\ LoadDataCalled
          /\ monitors' = IF monitors = <<>> THEN monitors ELSE Tail(monitors)
          /\ ev' = [kind |-> "opDone", toast |-> "info", op |-> pendingOps[j].op,
                    torn |-> ~mounted, pending |-> Cardinality(InFlight)]
     ELSE /\ inflight' = inflight
          /\ monitors' = monitors
          /\ \E err \in ThrownErrors :
               ev' = [kind |-> "opFailed", toast |-> "destructive",
                      op |-> pendingOps[j].op, torn |-> ~mounted, thrown |-> err,
                      description |-> ToastDescription(err, pendingOps[j].op)]
  /\ UNCHANGED <<auth, isConnected, healthStats, lastUpdate, paging,
                 autoRefreshInterval, clock>>

\* addVideo / deleteVideo settles: the success toast and loadData(), or the
\* failure toast of the handler's catch
OpSettles(j, outcome) ==
  /\ j \in 1..Len(pendingOps)
  /\ outcome \in FetchOutcomes
  /\ pendingOps' = Remove(pendingOps, j)
  /\ IF outcome = "ok"
     THEN /\ CanLoad
          /\ LoadDataCalled
          /\ ev' = [kind |-> "opDone", toast |-> "info", op |-> pendingOps[j].op,
                    torn |-> ~mounted, pending |-> Cardinality(InFlight)]
     ELSE /\ inflight' = inflight
          /\ \E err \in ThrownErrors :
               ev' = [kind |-> "opFailed", toast |-> "destructive",
                      op |-> pendingOps[j].op, torn |-> ~mounted, thrown |-> err,
                      description |-> ToastDescription(err, pendingOps[j].op)]
  /\ UNCHANGED <<auth, snapshot, paging, autoRefreshInterval, clock>>

(***************************************************************************)
(* The snapshot each invocation of loadData started from, kept beside the  *)
(* program's state.                                                        *)
(***************************************************************************)
TrackPre ==
  pre' = [k \in Slots |->
            IF inflight'[k].phase # "awaiting" THEN NoPre
            ELSE IF inflight[k] = Idle THEN Retained
            ELSE pre[k]]

(***************************************************************************)
(* The dashboard against a changing backend, at one instant of the clock.  *)
(***************************************************************************)
Outcome == {"ok", "fallback", "rejected"}

Next ==
  \/ AuthRestore /\ TrackPre
  \/ HandleManualRefresh /\ TrackPre
  \/ HandleLogout /\ TrackPre
  \/ \E i \in Slots, call \in Calls, outcome \in Outcome :
       Settle(i, call, outcome, Answers) /\ TrackPre
  \/ \E id \in {IdA} : HandleAddMonitor(id) /\ TrackPre
  \/ \E k \in 1..MaxVideos : HandleDeleteMonitor(k) /\ TrackPre
  \/ \E j \in 1..MaxOps, outcome \in FetchOutcomes :
       OpSettles(j, outcome) /\ TrackPre

Spec == Init /\ [][Next]_vars

(***************************************************************************)
(* The dashboard as the clock runs, against a steady backend.              *)
(***************************************************************************)
NextTimed ==
  \/ AuthRestore /\ UNCHANGED pre
  \/ AdvanceTime /\ UNCHANGED pre
  \/ \E t \in timers : TimerTick(t) /\ UNCHANGED pre
  \/ HandleManualRefresh /\ UNCHANGED pre
  \/ \E v \in IntervalOptions : SetAutoRefreshInterval(v) /\ UNCHANGED pre
  \/ HandleLogout /\ UNCHANGED pre
  \/ \E i \in Slots, call \in Calls, outcome \in Outcome :
       Settle(i, call, outcome, SteadyAnswers) /\ UNCHANGED pre

SpecTimed == Init /\ [][NextTimed]_vars

(***************************************************************************)
(* The pager and the filter, against a backend that answers every call:    *)
(* one refresh at a time but for the one an add or a delete starts.        *)
(***************************************************************************)
NextPaging ==
  \/ AuthRestore /\ UNCHANGED pre
  \/ HandleManualRefresh /\ InFlight = {} /\ UNCHANGED pre
  \/ \E i \in Slots, call \in Calls :
       Settle(i, call, "ok", PagingAnswers) /\ UNCHANGED pre
  \/ PrevPage /\ UNCHANGED pre
  \/ NextPage /\ UNCHANGED pre
  \/ \E size \in PageSizeOptions : HandlePageSizeChange(size) /\ UNCHANGED pre
  \/ \E f \in FilterOptions : SetStatusFilter(f) /\ UNCHANGED pre
  \/ \E id \in {IdA} : HandleAddMonitor(id) /\ UNCHANGED pre
  \/ \E k \in 1..InitialPageSize : HandleDeleteMonitor(k) /\ UNCHANGED pre
  \/ \E j \in 1..MaxOps, outcome \in FetchOutcomes :
       OpSettles(j, outcome) /\ UNCHANGED pre

SpecPaging == Init /\ [][NextPaging]_vars

(***************************************************************************)
(* The merge of loadData over the lists a backend can answer: the initial  *)
(* load of a signed-in dashboard, and the delete button of the rows shown. *)
(***************************************************************************)
\* a video id that starts with the separator
IdD == <<"-", "d">>

VideoIds == {IdA, IdB, IdD}

NoteWithError == <<"x", "e", "r", "r", "o", "r">>

NoteCapital == <<"E", "r", "r", "o", "r">>

\* status bodies, but for their video_id
StatusShapes ==
  {[video_id |-> Undefined, is_live_now |-> TRUE,
    live_status |-> <<"l", "i", "v", "e">>, checked_at |-> <<"t">>,
    note |-> Undefined],
   [video_id |-> Undefined, is_live_now |-> TRUE, live_status |-> Undefined,
    checked_at |-> <<"t">>, note |-> NoteWithError],
   [video_id |-> Undefined, is_live_now |-> FALSE,
    live_status |-> <<"l", "i", "v", "e">>, checked_at |-> <<"t">>,
    note |-> NoteCapital],
   [video_id |-> Undefined, is_live_now |-> FALSE, live_status |-> Undefined,
    checked_at |-> <<"t">>, note |-> NoteWithError],
   [video_id |-> Undefined, is_live_now |-> FALSE, live_status |-> Undefined,
    checked_at |-> <<"t">>, note |-> NoteCapital],
   [video_id |-> Undefined, is_live_now |-> FALSE, live_status |-> Undefined,
    checked_at |-> <<>>, note |-> Undefined],
   [video_id |-> Undefined, is_live_now |-> FALSE, live_status |-> <<>>,
    checked_at |-> <<"t">>, note |-> <<>>]}

\* no status body names IdD
StatusItems ==
  {[s EXCEPT !.video_id = id] : s \in StatusShapes, id \in {IdA, IdB}}

MergeAnswers ==
  [videos |-> SeqsUpTo({[video_id |-> id] : id \in VideoIds}, MaxMergeVideos),
   statuses |-> SeqsUpTo(StatusItems, MaxMergeStatuses),
   health |-> {HealthOk}]

NextMerge ==
  \/ AuthRestore /\ UNCHANGED pre
  \/ \E i \in Slots, call \in Calls :
       Settle(i, call, "ok", MergeAnswers) /\ UNCHANGED pre
  \/ \E k \in 1..MaxMergeVideos : HandleDeleteMonitor(k) /\ UNCHANGED pre

SpecMerge == Init /\ [][NextMerge]_vars

(***************************************************************************)
(* The page shown, against a backend with no registration or with twelve   *)
(* of them: one refresh at a time.                                         *)
(***************************************************************************)
\* twelve registrations, every other one live
TwelveVideos == [i \in 1..12 |-> [video_id |-> IF i % 2 = 0 THEN IdB ELSE IdA]]

ViewAnswers ==
  [videos |-> {<<>>, TwelveVideos},
   statuses |-> {<<StatusLive>>},
   health |-> {HealthOk}]

NextView ==
  \/ AuthRestore /\ UNCHANGED pre
  \/ HandleManualRefresh /\ InFlight = {} /\ UNCHANGED pre
  \/ \E i \in Slots, call \in Calls :
       Settle(i, call, "ok", ViewAnswers) /\ UNCHANGED pre
  \/ PrevPage /\ UNCHANGED pre
  \/ NextPage /\ UNCHANGED pre
  \/ \E size \in PageSizeOptions : HandlePageSizeChange(size) /\ UNCHANGED pre
  \/ \E f \in FilterOptions : SetStatusFilter(f) /\ UNCHANGED pre

SpecView == Init /\ [][NextView]_vars

(***************************************************************************)
(* Overlapping refresh cycles against a changing backend.  Beside the      *)
(* program's state, pre keeps here the order in which the cycles in flight *)
(* were started: rank 1 is the oldest, a cycle is overtaken once a cycle   *)
(* started after it has applied its result, and last tells whether the     *)
(* cycle that applied last had been overtaken.                             *)
(***************************************************************************)
NoOrder ==
  [rank |-> [k \in Slots |-> 0], overtaken |-> [k \in Slots |-> FALSE],
   last |-> "none"]

InitOverlap ==
  /\ Mounting
  /\ pre = NoOrder

TrackOrder ==
  LET started == {k \in Slots : inflight[k] = Idle /\ inflight'[k] # Idle}
      ended == {k \in Slots : inflight[k] # Idle /\ inflight'[k] = Idle}
      applier == IF ev'.kind = "applied" THEN {ev'.slot} ELSE {}
  IN pre' =
       [rank |->
          [k \in Slots |->
             IF inflight'[k] = Idle THEN 0
             ELSE IF k \in started THEN Cardinality(InFlight) + 1
             ELSE pre.rank[k]
                    - Cardinality({j \in ended : pre.rank[j] < pre.rank[k]})],
        overtaken |->
          [k \in Slots |->
             /\ inflight'[k] # Idle
             /\ k \notin started
             /\ \/ pre.overtaken[k]
                \/ \E j \in applier : pre.rank[j] > pre.rank[k]],
        last |->
          IF applier = {} THEN pre.last
          ELSE IF pre.overtaken[ev'.slot] THEN "overtaken"
          ELSE "in order"]

NextOverlap ==
  \/ AuthRestore /\ TrackOrder
  \/ HandleManualRefresh /\ TrackOrder
  \/ \E i \in Slots, call \in Calls, outcome \in Outcome :
       Settle(i, call, outcome, Answers) /\ TrackOrder

SpecOverlap == InitOverlap /\ [][NextOverlap]_vars

(***************************************************************************)
(* A user who stays signed in with the initial interval, against a steady  *)
(* backend of which a bounded number of calls fail before the clock        *)
(* reaches its horizon, and whose calls all resolve from then on.  The     *)
(* session is restored, and a cycle whose health check has failed          *)
(* completes, before the clock's next instant, so that a tick follows them *)
(* within the horizon.  Timer, clock and every response are scheduled      *)
(* fairly; the user's clicks are not.  Beside the program's state, pre     *)
(* counts here the gateway calls that have failed.                         *)
(***************************************************************************)
MaxFailures == 2    \* gateway calls that fail before the backend is steady

InitLive ==
  /\ Mounting
  /\ stored = "session"
  /\ pre = 0

TrackFailure == pre' = pre

\* the instant from which every gateway call resolves: the clock's last
StableFrom == (MaxTime \div ClockStep) * ClockStep

\* the cycles that are to apply the fallback of a failed health check
Degraded == {k \in InFlight : /\ inflight[k].health = "fallback"
                              /\ inflight[k].phase = "awaiting"}

SettleLive(i, call, outcome) ==
  /\ outcome = "ok" \/ (now < StableFrom /\ pre < MaxFailures)
  /\ Settle(i, call, outcome, SteadyAnswers)
  /\ pre' = IF outcome = "ok" THEN pre ELSE pre + 1

Restores == AuthRestore /\ TrackFailure

TimePasses ==
  /\ ~authLoading
  /\ Degraded = {}
  /\ AdvanceTime
  /\ TrackFailure

Ticks == \E t \in timers : TimerTick(t) /\ TrackFailure

Resolves == \E i \in Slots, call \in Calls : SettleLive(i, call, "ok")

NextLive ==
  \/ Restores
  \/ TimePasses
  \/ Ticks
  \/ HandleManualRefresh /\ TrackFailure
  \/ Resolves
  \/ \E i \in Slots, call \in Calls, outcome \in Outcome \ {"ok"} :
       SettleLive(i, call, outcome)

SpecLive ==
  /\ InitLive
  /\ [][NextLive]_vars
  /\ WF_vars(Restores)
  /\ WF_vars(TimePasses)
  /\ WF_vars(Ticks)
  /\ \A i \in Slots, call \in Calls : WF_vars(SettleLive(i, call, "ok"))

(***************************************************************************)
(* Properties.                                                             *)
(***************************************************************************)

\* C1: when a refresh cycle fails, connected is false afterwards and rows,
\* watchingCount, cachedCount and lastUpdate are what they were when the cycle
\* started.
C1_FailedCycleRetainsSnapshot ==
  [][ev'.kind = "catch" =>
       (isConnected' = FALSE /\ Retained' = pre[ev'.slot])]_vars

\* C2: a timer tick never starts a refresh cycle while the gateway calls of
\* an earlier cycle are pending: the overlapping tick is suppressed.
C2_TickSuppressedWhileInFlight ==
  [][ev'.kind = "tick" => (InFlight = {} \/ inflight' = inflight)]_vars

\* C3: a manual refresh while a cycle's gateway calls are pending issues no
\* further gateway call.
C3_ManualRefreshCoalesced ==
  [][ev'.kind = "manualRefresh" =>
       (InFlight = {} \/ inflight' = inflight)]_vars

C5_TimerFollowsInterval ==
  /\ Cardinality(timers) <= 1
  /\ \A t \in timers :
       /\ t.period = ParseInt(autoRefreshInterval)
       /\ Handle(t) = effectTimer
       /\ now <= t.due /\ t.due <= now + t.period
       /\ t.due > t.armedAt /\ (t.due - t.armedAt) % t.period = 0
  /\ (Rendered /\ ParseInt(autoRefreshInterval) > 0) => timers # {}
  /\ (ev.kind = "interval" /\ ev.changed) =>
       \A t \in timers : t.armedAt = now /\ t.due = now + t.period
  /\ ev.kind = "tick" =>
       /\ ev.period = ParseInt(autoRefreshInterval)
       /\ <<ev.period, ev.armedAt>> = effectTimer
       /\ now > ev.armedAt /\ (now - ev.armedAt) % ev.period = 0

\* the interval went from 30 to 10 at second 10, before any tick, and the
\* first tick comes at second 20
C5_Witness ==
  ev.kind = "tick" /\ ev.period = 10 /\ ev.armedAt = 10 /\ now = 20

\* C6: after sign-out or teardown no timer is armed and no tick invokes the
\* refresh; cancelling once more changes nothing.
C6_NoTimerAfterTeardown ==
  /\ (~mounted \/ ~session) => (timers = {} /\ effectTimer = NoTimer)
  /\ ev.kind = "tick" => (mounted /\ session)
  /\ LET once == ClearInterval(timers, effectTimer)
     IN ~mounted => (once = timers /\ ClearInterval(once, effectTimer) = once)

\* the dashboard had loaded, was torn down by sign-out, and the clock has
\* passed the second at which its timer was due
C6_Witness ==
  /\ ~mounted /\ ~session /\ lastUpdate # <<>>
  /\ ev.kind = "time" /\ now = 30

\* C7: pageIndex lies in [1, max(1, ceil(count(filtered rows) / pageSize))].
C7_PageIndexInRange ==
  /\ currentPage >= 1
  /\ currentPage <= (IF TotalPages > 1 THEN TotalPages ELSE 1)

\* C8: when the three calls resolve, rows are the merge of that cycle's
\* videos and statuses, connected is health.ok, the counters are those of the
\* health response and lastUpdate is stamped.
C8_SuccessReplacesSnapshot ==
  ev.kind = "applied" =>
    /\ monitors = MergeMonitors(ev.videos, ev.statuses)
    /\ isConnected = ev.health.ok
    /\ healthStats = [watching |-> ev.health.watching, cached |-> ev.health.cached]
    /\ lastUpdate = Stamp(now)

\* a cycle that found a row and whose videos are empty leaves no row
C8_Witness ==
  ev.kind = "applied" /\ ev.rowsBefore > 0 /\ ev.videos = <<>> /\ isConnected

\* C9: checkHealth never rejects; a cycle in which only checkHealth fails is
\* not a failed cycle: the rows are replaced and no failure notification is
\* raised.
C9_HealthFailureDoesNotFailCycle ==
  /\ \A k \in Slots : inflight[k].health # "rejected"
  /\ \A k \in Slots :
       inflight[k].phase = "failed" =>
         "rejected" \in {inflight[k].videos, inflight[k].statuses}
  /\ (ev.kind = "applied" /\ ev.degraded) =>
       /\ ev.health = HealthFallback
       /\ ev.toast = "none"
       /\ monitors = MergeMonitors(ev.videos, ev.statuses)
       /\ ~isConnected
       /\ healthStats = [watching |-> 0, cached |-> 0]

\* checkHealth failed, the two lists resolved, and the rows were replaced
C9_Witness ==
  ev.kind = "applied" /\ ev.degraded /\ Len(monitors) > 0 /\ ev.rowsBefore = 0

\* C10: a failed cycle raises exactly one failure notification, whether one
\* or both of listVideos and listStatus reject; a successful cycle raises none.
C10_OneNotificationPerFailedCycle ==
  /\ \A k \in InFlight :
       inflight[k].toasts = (IF inflight[k].phase = "failed" THEN 1 ELSE 0)
  /\ ev.kind = "catch" => (ev.toast = "destructive" /\ ev.toasts = 1)
  /\ ev.kind = "applied" => (ev.toast = "none" /\ ev.toasts = 0)
  /\ ev.kind = "settle" =>
       /\ ev.toast = "none"
       /\ ev.toasts = (IF ev.phase = "failed" THEN 1 ELSE 0)

\* the second of the two lists rejects after the catch has run
C10_Witness ==
  ev.kind = "settle" /\ ev.phase = "failed" /\ ev.outcome = "rejected"

\* C11: the merge yields one row per video, in the order of the videos, row i
\* carrying the video id of videos[i], whatever status records there are.
C11_OneRowPerVideoInOrder ==
  ev.kind = "applied" =>
    /\ Len(monitors) = Len(ev.videos)
    /\ \A i \in 1..Len(ev.videos) : monitors[i].videoId = ev.videos[i].video_id

\* two videos, the first with two status records and the second with none
C11_Witness ==
  /\ ev.kind = "applied"
  /\ Len(ev.videos) = 2 /\ Len(ev.statuses) = 2
  /\ ev.videos[1].video_id = IdB /\ ev.videos[2].video_id = IdD
  /\ \A j \in 1..2 : ev.statuses[j].video_id = IdB
  /\ Len(monitors) = 2

\* C12: a row whose status record (the last one of the list that names the
\* row's video) has is_live_now true is "live", whatever the note says.
C12_LiveTakesPrecedence ==
  ev.kind = "applied" =>
    \A i \in 1..Len(ev.videos), j \in 1..Len(ev.statuses) :
      ( /\ ev.statuses[j].video_id = ev.videos[i].video_id
        /\ \A k \in (j + 1)..Len(ev.statuses) :
             ev.statuses[k].video_id # ev.videos[i].video_id
        /\ ev.statuses[j].is_live_now )
      => monitors[i].status = "live"

\* a live record whose note contains "error"
C12_Witness ==
  /\ ev.kind = "applied"
  /\ Len(ev.videos) = 1 /\ Len(ev.statuses) = 1
  /\ ev.statuses[1].video_id = ev.videos[1].video_id
  /\ ev.statuses[1].is_live_now
  /\ ev.statuses[1].note = NoteWithError
  /\ monitors[1].status = "live"

\* C13: a row whose status record has is_live_now false is "error" when the
\* note contains "error" (case-sensitive), and "offline" when the note is
\* absent or does not contain it.
C13_ErrorNoteClassification ==
  ev.kind = "applied" =>
    \A i \in 1..Len(ev.videos), j \in 1..Len(ev.statuses) :
      ( /\ ev.statuses[j].video_id = ev.videos[i].video_id
        /\ \A k \in (j + 1)..Len(ev.statuses) :
             ev.statuses[k].video_id # ev.videos[i].video_id
        /\ ~ev.statuses[j].is_live_now )
      => monitors[i].status =
           (IF /\ ev.statuses[j].note # Undefined
               /\ \E a \in 1..Len(ev.statuses[j].note) :
                    /\ a + 4 <= Len(ev.statuses[j].note)
                    /\ SubSeq(ev.statuses[j].note, a, a + 4) =
                         <<"e", "r", "r", "o", "r">>
            THEN "error" ELSE "offline")

\* one row is an error by its note, the other is offline with the note "Error"
C13_Witness ==
  /\ ev.kind = "applied"
  /\ Len(monitors) = 2
  /\ monitors[1].status = "error" /\ monitors[2].status = "offline"
  /\ \E j \in 1..Len(ev.statuses) :
       /\ ev.statuses[j].video_id = ev.videos[2].video_id
       /\ ev.statuses[j].note = NoteCapital

\* C14: a row whose video no status record names is "offline", and its
\* details and checkTime are the "not yet checked" literal.
C14_NoStatusIsOfflineNotYetChecked ==
  ev.kind = "applied" =>
    \A i \in 1..Len(ev.videos) :
      (\A j \in 1..Len(ev.statuses) :
         ev.statuses[j].video_id # ev.videos[i].video_id)
      => /\ monitors[i].status = "offline"
         /\ monitors[i].details = NotYetChecked
         /\ monitors[i].checkTime = NotYetChecked

\* a video without a status beside a live one
C14_Witness ==
  /\ ev.kind = "applied"
  /\ Len(ev.videos) = 2 /\ Len(ev.statuses) = 1
  /\ ev.videos[1].video_id = IdA /\ ev.statuses[1].video_id = IdA
  /\ ev.statuses[1].is_live_now
  /\ ev.videos[2].video_id = IdD
  /\ monitors[2].status = "offline"

\* C15, as stated: the details of a row with a status record are the record's
\* live_status if present, else its note if present, else the "not yet
\* checked" literal; live_status "live" gives details "live".
C15_DetailsIsLiveStatus ==
  ev.kind = "applied" =>
    \A i \in 1..Len(ev.videos), j \in 1..Len(ev.statuses) :
      ( /\ ev.statuses[j].video_id = ev.videos[i].video_id
        /\ \A k \in (j + 1)..Len(ev.statuses) :
             ev.statuses[k].video_id # ev.videos[i].video_id )
      => monitors[i].details =
           (IF ev.statuses[j].live_status \notin {Undefined, <<>>}
            THEN ev.statuses[j].live_status
            ELSE IF ev.statuses[j].note \notin {Undefined, <<>>}
            THEN ev.statuses[j].note
            ELSE NotYetChecked)

\* C15, amended: the details of a row with a status record are the record's
\* live_status in upper case if it is a non-empty text, else its note if it is
\* a non-empty text, else the "not yet checked" literal; live_status "live"
\* gives details "LIVE".
C15_DetailsIsUpperCasedLiveStatus ==
  ev.kind = "applied" =>
    \A i \in 1..Len(ev.videos), j \in 1..Len(ev.statuses) :
      ( /\ ev.statuses[j].video_id = ev.videos[i].video_id
        /\ \A k \in (j + 1)..Len(ev.statuses) :
             ev.statuses[k].video_id # ev.videos[i].video_id )
      => /\ monitors[i].details =
              (IF ev.statuses[j].live_status \notin {Undefined, <<>>}
               THEN ToUpperCase(ev.statuses[j].live_status)
               ELSE IF ev.statuses[j].note \notin {Undefined, <<>>}
               THEN ev.statuses[j].note
               ELSE NotYetChecked)
         /\ ev.statuses[j].live_status = <<"l", "i", "v", "e">> =>
              monitors[i].details = <<"L", "I", "V", "E">>

\* one row takes its details from a live_status "live", the other from a note
C15_Witness ==
  /\ ev.kind = "applied"
  /\ Len(ev.videos) = 2 /\ Len(ev.statuses) = 2
  /\ \A i \in 1..2 : ev.statuses[i].video_id = ev.videos[i].video_id
  /\ ev.videos[1].video_id # ev.videos[2].video_id
  /\ ev.statuses[1].live_status = <<"l", "i", "v", "e">>
  /\ monitors[1].details = <<"L", "I", "V", "E">>
  /\ ev.statuses[2].live_status = Undefined
  /\ monitors[2].details = NoteCapital

\* C16: extracting the video id from the row id built at merge time from
\* (videoId, index) gives back that video id, also when it contains "-", so
\* the delete handler sends deleteVideo the video id of the row clicked.
C16_ExtractionRecoversVideoId ==
  /\ \A id \in VideoIds, index \in {0, 1, 10, 11} :
       ExtractVideoId(RowId(id, index)) = id
  /\ \A i \in 1..Len(monitors) : ExtractVideoId(monitors[i].id) = monitors[i].videoId
  /\ ev.kind = "delete" =>
       /\ ev.sent = ev.clicked
       /\ pendingOps[Len(pendingOps)] = [op |-> "delete", videoId |-> ev.clicked]

\* the second row, whose video id contains "-", is deleted; the first row's
\* video id starts with "-"
C16_Witness ==
  /\ ev.kind = "delete"
  /\ Len(monitors) = 2
  /\ monitors[1].videoId = IdD /\ monitors[2].videoId = IdB
  /\ ev.clicked = IdB /\ ev.sent = IdB

\* C17: the row ids of a snapshot are pairwise distinct, also when a video id
\* occurs twice in the videos and when video ids contain "-".
C17_RowIdsDistinct ==
  /\ \A i, j \in 1..Len(monitors) : i # j => monitors[i].id # monitors[j].id
  /\ \A a, b \in VideoIds, i, j \in {0, 1, 10, 11} :
       i # j => RowId(a, i) # RowId(b, j)

\* the same video id, one with a "-", registered twice
C17_Witness ==
  /\ ev.kind = "applied"
  /\ Len(monitors) = 2
  /\ monitors[1].videoId = IdB /\ monitors[2].videoId = IdB
  /\ monitors[1].id # monitors[2].id

\* C18: in the state right after the status filter is changed, the page shown
\* is page 1, whatever page was shown before.
C18_FilterChangeResetsPage ==
  (ev.kind = "filter" /\ ev.changed) => currentPage = 1

\* C19: in the state right after the page size is changed, the page shown is
\* page 1 and the page size is the new value.
C19_PageSizeChangeResetsPage ==
  ev.kind = "pageSize" => (currentPage = 1 /\ pageSize = ev.size)

\* page 2 of six rows was shown and the page size went from 5 to 10
C19_Witness ==
  /\ ev.kind = "pageSize"
  /\ ev.pageBefore = 2 /\ ev.size = 10 /\ pageSize = 10
  /\ Len(monitors) = 6
  /\ currentPage = 1

\* C20: the next control is disabled whenever the page shown is at or past
\* the last page, also when no row passes the filter; the previous control is
\* disabled on page 1; by these controls the page never passes the last page
\* and never goes below 1.
C20_PagerControlsDisabledAtBounds ==
  /\ Rendered =>
       /\ currentPage >= TotalPages => NextDisabled
       /\ currentPage = 1 => PrevDisabled
  /\ ev.kind = "nextPage" => currentPage <= TotalPages
  /\ ev.kind = "prevPage" => currentPage >= 1

\* C21: the rows shown are filtered[(page-1)*size : page*size], filtered being
\* the rows whose status is the filter (all of them for "all") in their order;
\* so every row shown passes the filter, at most pageSize rows are shown,
\* totalPages is ceil(filtered / pageSize), 12 rows of 5 a page make 3 pages
\* with 2 rows on page 3, and no filtered row means an empty page.
C21_VisibleRowsAreTheSlice ==
  LET pass == {i \in 1..Len(monitors) :
                 statusFilter = "all" \/ monitors[i].status = statusFilter}
      n == Cardinality(pass)
      Nth(k) == CHOOSE i \in pass : Cardinality({j \in pass : j <= i}) = k
      from == (currentPage - 1) * pageSize
      shown == IF n - from < 0 THEN 0
               ELSE IF n - from > pageSize THEN pageSize ELSE n - from
  IN /\ Len(FilteredMonitors) = n
     /\ \A k \in 1..n : FilteredMonitors[k] = monitors[Nth(k)]
     /\ Len(PaginatedMonitors) = shown
     /\ \A k \in 1..shown : PaginatedMonitors[k] = monitors[Nth(from + k)]
     /\ \A k \in 1..Len(PaginatedMonitors) :
          statusFilter = "all" \/ PaginatedMonitors[k].status = statusFilter
     /\ Len(PaginatedMonitors) <= pageSize
     /\ TotalPages * pageSize >= n /\ (TotalPages - 1) * pageSize < n
     /\ n = 0 => (TotalPages = 0 /\ PaginatedMonitors = <<>>)
     /\ (n = 12 /\ pageSize = 5) =>
          (TotalPages = 3 /\ (currentPage = 3 => Len(PaginatedMonitors) = 2))

\* page 3 of twelve rows, five a page
C21_Witness ==
  /\ Rendered
  /\ statusFilter = "all" /\ Len(FilteredMonitors) = 12
  /\ pageSize = 5 /\ currentPage = 3
  /\ Len(PaginatedMonitors) = 2
  /\ PaginatedMonitors[2] = monitors[12]

\* C22: an add or a delete never changes the rows by itself: the rows change
\* only when a refresh cycle applies its merge, the handler starts no refresh
\* before the gateway call has settled, and it starts one when the call has
\* succeeded.
C22_MutationsFunnelThroughRefresh ==
  [][ /\ monitors' # monitors => ev'.kind = "applied"
      /\ ev'.kind \in {"add", "delete", "opDone", "opFailed"} =>
           snapshot' = snapshot
      /\ ev'.kind \in {"add", "delete"} =>
           (inflight' = inflight /\ Len(pendingOps') = Len(pendingOps) + 1)
      /\ ev'.kind = "opDone" =>
           /\ Len(pendingOps') = Len(pendingOps) - 1
           /\ Cardinality(InFlight') = Cardinality(InFlight) + 1 ]_vars

\* a delete has succeeded: its row is still shown and the refresh is awaited
C22_Witness ==
  /\ ev.kind = "opDone" /\ ev.op = "delete"
  /\ Len(monitors) > 0
  /\ InFlight # {}
  /\ \A k \in InFlight : inflight[k].phase = "awaiting"

\* C23: when addVideo or deleteVideo fails, rows, connected, the counters and
\* lastUpdate stay as they were, no refresh cycle is started, and one
\* destructive notification shows the message of the error.
C23_FailedMutationLeavesSnapshot ==
  [][ev'.kind = "opFailed" =>
       /\ snapshot' = snapshot
       /\ inflight' = inflight
       /\ ev'.toast = "destructive"
       /\ ev'.description = ev'.thrown.message ]_vars

\* the delete of a row shown was refused with HTTP 500
C23_Witness ==
  /\ ev.kind = "opFailed" /\ ev.op = "delete"
  /\ ev.description = "HTTP 500"
  /\ Len(monitors) > 0
  /\ InFlight = {}

\* C24: while the interval is 0 or less no timer is armed and no tick starts
\* a refresh; a manual refresh in that state still starts a refresh cycle.
C24_NoTimerWhenDisabled ==
  /\ ParseInt(autoRefreshInterval) <= 0 =>
       (timers = {} /\ effectTimer = NoTimer /\ ev.kind # "tick")
  /\ ev.kind = "tick" => ev.period > 0
  /\ ev.kind = "manualRefresh" =>
       /\ Cardinality(InFlight) = ev.pending + 1
       /\ \E k \in InFlight : inflight[k] = NewCycle

\* auto refresh was disabled, thirty seconds went by without a tick, and the
\* manual refresh started a cycle
C24_Witness ==
  /\ autoRefreshInterval = <<"0">>
  /\ now = 30 /\ lastUpdate = Stamp(0)
  /\ ev.kind = "manualRefresh" /\ ev.pending = 0
  /\ Cardinality(InFlight) = 1

\* C25: once signOut has been called the dashboard initiates no gateway call:
\* no refresh cycle and no add or delete is started, also not by an add or a
\* delete that was awaiting its response when the user signed out.
C25_NoGatewayCallAfterSignOut ==
  [][~mounted =>
       /\ \A k \in Slots : inflight'[k] = NewCycle => inflight[k] = NewCycle
       /\ Len(pendingOps') <= Len(pendingOps) ]_vars

\* C26: a refresh cycle never updates the snapshot in part: while its calls
\* settle one by one the snapshot is untouched; when the last of them resolves,
\* rows, connected and the counters are all set from that cycle; a failed
\* cycle touches connected alone.
C26_NoPartialSnapshotUpdate ==
  [][ /\ ev'.kind = "applied" =>
           /\ Cardinality({call \in Calls :
                             inflight[ev'.slot][call] = "pending"}) = 1
           /\ \A call \in Calls :
                inflight[ev'.slot][call] \in {"pending", "ok", "fallback"}
           /\ monitors' = MergeMonitors(ev'.videos, ev'.statuses)
           /\ isConnected' = ev'.health.ok
           /\ healthStats' = [watching |-> ev'.health.watching,
                              cached |-> ev'.health.cached]
      /\ ev'.kind = "catch" =>
           /\ isConnected' = FALSE
           /\ UNCHANGED <<monitors, healthStats, lastUpdate>>
      /\ ev'.kind \notin {"applied", "catch"} => snapshot' = snapshot ]_vars

\* checkHealth and fetchStatus of the first cycle have resolved, fetchVideos
\* is pending, and the snapshot is the initial one
C26_Witness ==
  /\ ev.kind = "settle" /\ ev.phase = "awaiting"
  /\ inflight[ev.slot].health = "ok" /\ inflight[ev.slot].statuses = "ok"
  /\ inflight[ev.slot].videos = "pending"
  /\ ~isConnected /\ lastUpdate = <<>> /\ monitors = <<>>
  /\ healthStats = [watching |-> 0, cached |-> 0]

\* C27: when refresh cycles overlap, the snapshot is that of the cycle that
\* completed last, also when a cycle started after it has completed before
\* it, and the rows are always the full result of one cycle, never a mixture.
C27_LastCompletedCycleWins ==
  /\ ev.kind = "applied" =>
       /\ pre.last \in {"in order", "overtaken"}
       /\ monitors = MergeMonitors(ev.videos, ev.statuses)
       /\ isConnected = ev.health.ok
       /\ healthStats = [watching |-> ev.health.watching,
                         cached |-> ev.health.cached]
  /\ \/ monitors = <<>>
     \/ \E videos \in Answers.videos, statuses \in Answers.statuses :
          monitors = MergeMonitors(videos, statuses)

\* the cycle started first completed after the one started later, and its
\* empty result replaced the row the later one had installed
C27_Witness ==
  /\ ev.kind = "applied" /\ pre.last = "overtaken"
  /\ InFlight = {}
  /\ ev.rowsBefore = 1 /\ ev.videos = <<>>
  /\ monitors = <<>>

C29_LastDuplicateWins ==
  ev.kind = "applied" =>
    \A i \in 1..Len(ev.videos), j \in 1..Len(ev.statuses) :
      ( /\ ev.statuses[j].video_id = ev.videos[i].video_id
        /\ \A k \in (j + 1)..Len(ev.statuses) :
             ev.statuses[k].video_id # ev.videos[i].video_id )
      => monitors[i] = MonitorItemOf(ev.videos[i], i - 1, <<ev.statuses[j]>>)

\* two records name the row's video: the first is live, the last is not and
\* carries an error note, and the row is an error
C29_Witness ==
  /\ ev.kind = "applied"
  /\ Len(ev.videos) = 1 /\ Len(ev.statuses) = 2
  /\ \A j \in 1..2 : ev.statuses[j].video_id = ev.videos[1].video_id
  /\ ev.statuses[1].is_live_now
  /\ ~ev.statuses[2].is_live_now /\ ev.statuses[2].note = NoteWithError
  /\ monitors[1].status = "error"
  /\ monitors[1].details = NoteWithError

\* C30: while the authentication state is loading or there is no session, no
\* refresh cycle and no timer is started; when the loading ends with a session,
\* one refresh cycle starts in that step, at the same instant of the clock and
\* whatever the interval.
C30_RefreshOnlyWithSession ==
  [][ /\ (authLoading' \/ ~session') =>
           /\ \A k \in Slots : inflight[k] = Idle => inflight'[k] = Idle
           /\ timers' \subseteq timers
      /\ (authLoading /\ ~authLoading' /\ session') =>
           /\ Cardinality({k \in Slots : /\ inflight[k] = Idle
                                         /\ inflight'[k] = NewCycle}) = 1
           /\ now' = now ]_vars

====
